---- MODULE Spec2Model ----
(***************************************************************************)
(* Key Registry (KeyManager), Valid Key Pool (ValidKeyPool), the error     *)
(* handler, the stream retry engine and the retry driver of                *)
(* gemini-balance, as a state machine.                                     *)
(*                                                                         *)
(* Time is an integer clock `now` (one tick = min_refill_interval).  Every *)
(* coroutine segment between two real suspension points (the verification  *)
(* round-trip, a wait for the semaphore) is one atomic step: asyncio runs  *)
(* a task until it really suspends, and no lock of the program is held     *)
(* across a suspension by anybody but the refill tasks themselves.         *)
(***************************************************************************)
EXTENDS Integers, Sequences, FiniteSets, Bags, TLC

(***************************************************************************)
(* Configuration (app.config.settings) and bounds of the model.            *)
(***************************************************************************)
ApiKeys == <<"A", "B">>          \* settings.API_KEYS at start-up
Keys == {"A", "B"}               \* every credential that can be named
NoKey == ""                           \* the empty credential ""
\* A model name is the sequence of its "-"-separated parts.
NoModel == <<>>                       \* model_name = None
Models == {<<"pro">>, <<"flash">>}    \* models that errors are reported for
RequestModels == Models \cup {NoModel, <<"pro", "search">>}
PRO_MODELS == {<<"pro">>}             \* settings.PRO_MODELS
TEST_MODEL == <<"flash">>             \* settings.TEST_MODEL
MAX_FAILURES == 2
MAX_RETRIES == 2
POOL_SIZE == 2
POOL_MIN_THRESHOLD == 1
EMERGENCY_REFILL_COUNT == 2
CONCURRENT_VERIFICATIONS == 1
PRO_MODEL_MAX_USAGE == 1               \* settings.PRO_MODEL_MAX_USAGE
NON_PRO_MODEL_MAX_USAGE == 2           \* settings.NON_PRO_MODEL_MAX_USAGE
TTL == 1                              \* ttl_hours, in ticks
Jitter == 0                           \* the +-10% jitter, in ticks
min_refill_interval == 1              \* 5 seconds, in ticks
Day == 2                              \* 24 hours, in ticks
GEMINI_QUOTA_RESET_HOUR == 1
TzOffset == 1                         \* utcoffset of settings.TIMEZONE

MaxTime == 3                          \* the clock stops here
MaxTasks == 2                         \* background tasks alive at a time
FailCap == 2                          \* failure counts stop here
MaxUsage == 2                         \* usage counts of unlimited entries stop here
MaxRefills == 2                       \* counted emergency refills stop here

(***************************************************************************)
(* Sequences as Python lists and deques.                                   *)
(***************************************************************************)
Range(s) == {s[i] : i \in 1..Len(s)}

\* list.index: the first position of x (1-based), 0 when absent
IndexOf(s, x) ==
  IF x \in Range(s) THEN CHOOSE i \in 1..Len(s) : s[i] = x /\ \A j \in 1..(i-1) : s[j] # x
  ELSE 0

\* list.remove(x): drops the first occurrence
ListRemove(s, x) ==
  LET i == IndexOf(s, x) IN
  IF i = 0 THEN s ELSE SubSeq(s, 1, i-1) \o SubSeq(s, i+1, Len(s))

\* deque(e for e in d if e.key != k)
WithoutKey(d, k) == SelectSeq(d, LAMBDA e : e.key # k)

PoolKeys(d) == {d[i].key : i \in 1..Len(d)}

\* deque(maxlen=n).append(e): a full deque drops its head
DequeAppend(d, e, n) ==
  IF n = 0 THEN d
  ELSE IF Len(d) >= n THEN Tail(d) \o <<e>> ELSE Append(d, e)

Min(a, b) == IF a < b THEN a ELSE b

(***************************************************************************)
(* State.                                                                  *)
(*   km    the KeyManager singleton: api_keys, valid_api_keys, key_index   *)
(*         (0-based), key_failure_counts, key_model_status (0: no entry),  *)
(*         valid_key_pool (FALSE: None), singleton (FALSE: reset)          *)
(*   pool  the ValidKeyPool: valid_keys (deque of entries), pool_keys_set, *)
(*         verifying_keys, permits of verification_semaphore,              *)
(*         emergency_lock, last_refill_time, stats                         *)
(*   tasks background tasks created with asyncio.create_task               *)
(*   now   the clock                                                       *)
(*   last  what the call that just returned did (observation only)         *)
(*   preserved  the module globals _preserved_* between reset and re-init  *)
(*   settings   the usage caps of app.config.settings                      *)
(*   sre   the session of the stream retry engine (the locals of           *)
(*         process_stream_and_retry_internally and what it has yielded)    *)
(*   rh    the call of a function wrapped by RetryHandler (the locals of   *)
(*         wrapper and the calls it has made)                              *)
(***************************************************************************)
VARIABLES km, pool, tasks, now, last, preserved, settings, sre, rh

vars == <<km, pool, tasks, now, last, preserved, settings, sre, rh>>

(***************************************************************************)
(* Key Registry: KeyManager                                                *)
(***************************************************************************)
\* Whether KeyManager.__init__ ends with a pool.  The call in __init__ hands
\* ValidKeyPool no error_processor and app.handler.error_processor defines no
\* ErrorProcessor, so the pool is taken as built with one whenever it is
\* enabled and there are keys.
ValidKeyPoolBuilt(keys, pool_enabled) == pool_enabled /\ keys # <<>>

\* KeyManager(api_keys, ...)
NewKeyManager(keys, pool_enabled) ==
  [api_keys |-> keys,
   valid_api_keys |-> keys,
   key_index |-> 0,
   key_failure_counts |-> [k \in Range(keys) |-> 0],
   key_model_status |-> [k \in Keys |-> [m \in Models |-> 0]],
   valid_key_pool |-> ValidKeyPoolBuilt(keys, pool_enabled),
   singleton |-> TRUE]

\* model_statuses.get(model_name): 0 when there is no entry
CooldownOf(k, key, model) ==
  IF model \in Models THEN k.key_model_status[key][model] ELSE 0

\* a registry that never sees a cooldown
CooldownIgnored(k, key, model, t) == FALSE

\* expiry_time and now < expiry_time
InCooldownFor(k, key, model, t) ==
  CooldownOf(k, key, model) # 0 /\ t < CooldownOf(k, key, model)

\* the loop over key_statuses.items() of _is_key_usable / async_verify_and_add
InAnyCooldown(k, key, t) == \E m \in Models : InCooldownFor(k, key, m, t)

is_key_valid(k, key) == k.key_failure_counts[key] < MAX_FAILURES

\* the next occurrence of the reset hour in the configured zone, as UTC
NextResetTime(t) ==
  LET local == t + TzOffset
      today == (local \div Day) * Day + GEMINI_QUOTA_RESET_HOUR
      next  == IF local >= today THEN today + Day ELSE today
  IN next - TzOffset

\* a registry that records no cooldown
cooling_not_marked(k, key, model, t) == k

mark_key_model_as_cooling(k, key, model, t) ==
  [k EXCEPT !.key_model_status[key][model] = NextResetTime(t)]

mark_key_as_failed(k, key) ==
  IF key \in DOMAIN k.key_failure_counts
  THEN [k EXCEPT !.key_failure_counts[key] = MAX_FAILURES,
                 !.valid_api_keys = ListRemove(@, key)]
  ELSE k

\* the locked part of handle_api_failure; the caller checks the KeyError
IncrementFailure(k, key) ==
  LET n == k.key_failure_counts[key] + 1 IN
  [k EXCEPT !.key_failure_counts[key] = n,
            !.valid_api_keys = IF n >= MAX_FAILURES THEN ListRemove(@, key) ELSE @]

reset_key_failure_count(k, key) ==
  IF key \in DOMAIN k.key_failure_counts
  THEN [k EXCEPT !.key_failure_counts[key] = 0,
                 !.valid_api_keys = IF key \in Range(@) THEN @ ELSE Append(@, key)]
  ELSE k

reset_failure_counts(k) ==
  [k EXCEPT !.key_failure_counts = [x \in DOMAIN @ |-> 0]]

\* One pass of the for loop of _original_get_next_working_key; n iterations left.
\* valid_api_keys[key_index] raises IndexError when key_index is past the end.
RECURSIVE ScanValidKeys(_, _, _, _, _)
ScanValidKeys(k, model, t, start_index, n) ==
  IF n = 0
  THEN [km |-> k, raised |-> FALSE,
        ret |-> IF k.api_keys # <<>> THEN k.api_keys[1] ELSE NoKey]
  ELSE IF k.key_index >= Len(k.valid_api_keys)
  THEN [km |-> k, raised |-> TRUE, ret |-> NoKey]
  ELSE LET current_key == k.valid_api_keys[k.key_index + 1]
           is_in_cooldown == model # NoModel /\ InCooldownFor(k, current_key, model, t)
           next_index == (k.key_index + 1) % Len(k.valid_api_keys)
           k2 == [k EXCEPT !.key_index = next_index]
       IN IF ~is_in_cooldown
          THEN [km |-> k2, raised |-> FALSE, ret |-> current_key]
          ELSE IF next_index = start_index
          THEN [km |-> k2, raised |-> FALSE, ret |-> k.valid_api_keys[next_index + 1]]
          ELSE ScanValidKeys(k2, model, t, start_index, n - 1)

original_get_next_working_key(k, model, t) ==
  IF k.valid_api_keys = <<>>
  THEN [km |-> k, raised |-> FALSE,
        ret |-> IF k.api_keys # <<>> THEN k.api_keys[1] ELSE NoKey]
  ELSE ScanValidKeys(k, model, t, k.key_index, Len(k.valid_api_keys))

(***************************************************************************)
(* Valid Key Pool: ValidKeyWithTTL and ValidKeyPool                        *)
(***************************************************************************)
\* ValidKeyWithTTL(key, ttl_hours) created at t with jitter j
NewEntry(key, t, j) == [key |-> key, expires_at |-> t + TTL + j, usage_count |-> 0]

\* no entry: what a call that is not a pool hit hands out
NoEntry == [key |-> NoKey, expires_at |-> 0, usage_count |-> 0]

\* a call that changes nothing and hands out nothing
\* The counters of self.stats for the pool's hits and misses and for the
\* verifications.  They only grow: an operation carries the amounts by which
\* it raises them.
NoStats ==
  [hit_count |-> 0, miss_count |-> 0, total_verifications |-> 0,
   successful_verifications |-> 0, verification_failures |-> 0]

NoResult(k, p) ==
  [km |-> k, pool |-> p, raised |-> FALSE, ret |-> NoKey, hit |-> FALSE,
   entry |-> NoEntry, usage_exhausted |-> 0, spawn |-> <<>>, stats |-> NoStats]

JitterRange == (0 - Jitter)..Jitter

is_expired(e, t) == t > e.expires_at

NewPool ==
  [valid_keys |-> <<>>,
   pool_keys_set |-> {},
   verifying_keys |-> {},
   permits |-> CONCURRENT_VERIFICATIONS,
   emergency_lock |-> FALSE,
   last_refill_time |-> 0,
   emergency_refill_count |-> 0]

\* clean_model.endswith("-" + suffix): the name has a part before the suffix
StripSuffix(m, suffix) ==
  IF Len(m) >= 2 /\ m[Len(m)] = suffix THEN SubSeq(m, 1, Len(m) - 1) ELSE m

\* pro_model in clean_model
Contains(m, part) ==
  \E i \in 1..Len(m) : i + Len(part) - 1 <= Len(m) /\ SubSeq(m, i, i + Len(part) - 1) = part

is_pro_model(model) ==
  IF model = NoModel THEN FALSE
  ELSE LET clean_model ==
             StripSuffix(StripSuffix(StripSuffix(model, "search"), "image"), "non-thinking")
       IN \E pro_model \in PRO_MODELS : Contains(clean_model, pro_model)

get_max_usage_for_model(model) ==
  IF is_pro_model(model) THEN settings.PRO_MODEL_MAX_USAGE
  ELSE settings.NON_PRO_MODEL_MAX_USAGE

\* _is_key_usable without its key_obj.is_expired() test
usable_unless_cooling(k, e, t) == ~InAnyCooldown(k, e.key, t)

\* a usability test that looks at the age of the entry only
KeyUnexpired(k, e, t) == ~is_expired(e, t)

is_key_usable(k, e, t) ==
  IF is_expired(e, t) THEN FALSE ELSE ~InAnyCooldown(k, e.key, t)

\* A background task: kind, pc ("start": created, "verifying": awaiting the
\* verification round-trips of `pending`), the model or key it was created
\* for, the keys it selected in order, and those that verified so far.
Task(kind, model, key) ==
  [kind |-> kind, pc |-> "start", model |-> model, key |-> key,
   sel |-> <<>>, pending |-> {}, ok |-> {}]

\* _remove_expired_keys at time t: the pool without its expired entries, and
\* one _revalidate_and_readd_key task per expired entry
remove_expired_keys(p, t) ==
  LET keep == SelectSeq(p.valid_keys, LAMBDA e : ~is_expired(e, t))
      gone == SelectSeq(p.valid_keys, LAMBDA e : is_expired(e, t))
  IN [pool |-> [p EXCEPT !.valid_keys = keep,
                         !.pool_keys_set = (@ \ PoolKeys(p.valid_keys)) \cup PoolKeys(keep)],
      spawn |-> [i \in 1..Len(gone) |-> Task("revalidate", NoModel, gone[i].key)]]

\* _trigger_refill_on_key_removal at time t; coin: random.random() < refill_chance
trigger_refill_on_key_removal(p, model, t, coin) ==
  LET current_size == Len(p.valid_keys) IN
  IF current_size < POOL_MIN_THRESHOLD
  THEN [pool |-> p, spawn |-> <<Task("refill_async", NoModel, NoKey)>>]
  ELSE IF current_size < POOL_SIZE
  THEN IF t - p.last_refill_time < min_refill_interval
       THEN [pool |-> p, spawn |-> <<>>]
       ELSE IF coin
       THEN [pool |-> [p EXCEPT !.last_refill_time = t],
             spawn |-> <<Task("verify_add", model, NoKey)>>]
       ELSE [pool |-> p, spawn |-> <<>>]
  ELSE [pool |-> p, spawn |-> <<>>]

\* a lock that nobody is ever seen to hold
never_locked(p) == FALSE

\* self.emergency_lock.locked()
emergency_lock_locked(p) == p.emergency_lock

\* emergency_refill: the registry's candidate now, the refill in the background
\* the candidate r of the registry handed out as a miss of the pool p
Miss(r, p) ==
  [km |-> r.km, pool |-> p, raised |-> r.raised, ret |-> r.ret, hit |-> FALSE,
   entry |-> NoEntry, usage_exhausted |-> 0,
   spawn |-> IF ~r.raised /\ ~emergency_lock_locked(p)
             THEN <<Task("bg_refill", NoModel, NoKey)>> ELSE <<>>,
   stats |-> NoStats]

\* an emergency refill that verifies its candidate before it returns
blocking_emergency_refill(k, p, model, t) ==
  \* the candidate is verified and pooled within the call
  LET r == original_get_next_working_key(k, model, t)
  IN Miss(r, IF r.ret = NoKey THEN p
             ELSE [p EXCEPT !.valid_keys = Append(@, NewEntry(r.ret, t, 0)),
                            !.pool_keys_set = @ \cup {r.ret}])

emergency_refill(k, p, model, t) == Miss(original_get_next_working_key(k, model, t), p)

\* a usage test that lets an entry at its cap through once more
usage_limit_exceeded(key_obj, max_usage) ==
  max_usage > 0 /\ key_obj.usage_count > max_usage

\* max_usage > 0 and key_obj.usage_count >= max_usage
usage_limit_reached(key_obj, max_usage) ==
  max_usage > 0 /\ key_obj.usage_count >= max_usage

\* _record_key_hit(key_obj, max_usage)
record_key_hit(stats) == [stats EXCEPT !.hit_count = @ + 1]

\* _get_key_from_pool_with_checks at time t
RECURSIVE get_key_from_pool_with_checks(_, _, _, _, _, _)
get_key_from_pool_with_checks(k, p, model, t, coin, increment_usage) ==
  IF p.valid_keys = <<>>
  THEN emergency_refill(k, p, model, t)
  ELSE LET key_obj == Head(p.valid_keys)
           popped == [p EXCEPT !.valid_keys = Tail(@), !.pool_keys_set = @ \ {key_obj.key}]
           max_usage == get_max_usage_for_model(model)
       IN IF is_key_usable(k, key_obj, t) /\ ~usage_limit_reached(key_obj, max_usage)
          THEN LET used == IF increment_usage
                           THEN [key_obj EXCEPT !.usage_count = @ + 1] ELSE key_obj
               IN [km |-> k,
                   pool |-> [popped EXCEPT !.valid_keys = Append(@, used),
                                           !.pool_keys_set = @ \cup {used.key}],
                   raised |-> FALSE, ret |-> used.key, hit |-> TRUE, entry |-> used,
                   usage_exhausted |-> 0, spawn |-> <<>>,
                   stats |-> record_key_hit(NoStats)]
          ELSE LET tr == trigger_refill_on_key_removal(popped, model, t, coin)
                   rest == get_key_from_pool_with_checks(k, tr.pool, model, t, coin,
                                                         increment_usage)
               IN [rest EXCEPT !.spawn = tr.spawn \o @,
                               !.usage_exhausted =
                                   IF is_key_usable(k, key_obj, t) THEN @ + 1 ELSE @]

\* a checked checkout that does not count the use of the entry it hands out
SweptUncounted(k, sw, model, t, coin) ==
  [get_key_from_pool_with_checks(k, sw.pool, model, t, coin, FALSE)
     EXCEPT !.spawn = sw.spawn \o @]

\* a checked checkout that puts the entry it hands out back at the head
SweptAtHead(k, sw, model, t, coin) ==
  LET r == get_key_from_pool_with_checks(k, sw.pool, model, t, coin, TRUE)
  IN [r EXCEPT !.spawn = sw.spawn \o @,
               !.pool.valid_keys =
                   IF r.hit THEN <<r.entry>> \o SubSeq(@, 1, Len(@) - 1) ELSE @]

\* get_valid_key: the sweep at time t1, the checked checkout at time t2
\* the checked checkout after the sweep sw
Swept(k, sw, model, t, coin) ==
  [get_key_from_pool_with_checks(k, sw.pool, model, t, coin, TRUE)
     EXCEPT !.spawn = sw.spawn \o @]

get_valid_key(k, p, model, t1, t2, coin) ==
  Swept(k, remove_expired_keys(p, t1), model, t2, coin)

\* get_next_working_key: the pool first; any exception of the pool falls back
\* to the registry's round-robin
\* the result r of the pool, with the registry's candidate f in its place
FallenBack(r, f) == [r EXCEPT !.km = f.km, !.raised = f.raised, !.ret = f.ret]

\* the result r of the pool, or the registry's round-robin when the pool raised
OrFallback(r, model, t) ==
  IF ~r.raised THEN r ELSE FallenBack(r, original_get_next_working_key(r.km, model, t))

get_next_working_key(k, p, model, t1, t2, coin) ==
  IF k.valid_key_pool
  THEN OrFallback(get_valid_key(k, p, model, t1, t2, coin), model, t2)
  ELSE FallenBack(NoResult(k, p), original_get_next_working_key(k, model, t2))

\* KeyManager.remove_key: the hard removal, pool included
remove_key(k, p, key) ==
  IF key \notin Range(k.api_keys) THEN [km |-> k, pool |-> p]
  ELSE LET valid == ListRemove(k.valid_api_keys, key)
           k2 == [k EXCEPT !.api_keys = ListRemove(@, key),
                           !.valid_api_keys = valid,
                           !.key_failure_counts =
                               [x \in (DOMAIN @) \ {key} |-> k.key_failure_counts[x]],
                           !.key_model_status[key] = [m \in Models |-> 0],
                           !.key_index = IF @ >= Len(valid) /\ valid # <<>> THEN 0 ELSE @]
           p2 == IF k.valid_key_pool /\ p.valid_keys # <<>>
                 THEN [p EXCEPT !.valid_keys = WithoutKey(@, key),
                                !.pool_keys_set = @ \ {key}]
                 ELSE p
       IN [km |-> k2, pool |-> p2]

\* KeyManager.remove_key_from_pool: the soft removal
remove_key_from_pool(k, p, key) ==
  IF k.valid_key_pool /\ p.valid_keys # <<>> /\ Len(WithoutKey(p.valid_keys, key)) < Len(p.valid_keys)
  THEN [p EXCEPT !.valid_keys = WithoutKey(@, key), !.pool_keys_set = @ \ {key}]
  ELSE p

(***************************************************************************)
(* Error handler: handle_api_error_and_get_next_key.  An error is the set  *)
(* of status codes that occur in str(error).                               *)
(***************************************************************************)
ErrorTexts == {{429}, {401}, {404}, {503}, {}, {401, 429}}

is_429_error(error) == 429 \in error
is_auth_error(error) == 401 \in error \/ 403 \in error
is_client_error(error) == 400 \in error \/ 404 \in error \/ 422 \in error
is_server_error(error) == 500 \in error \/ 502 \in error \/ 504 \in error
is_service_unavailable(error) == 503 \in error
is_timeout_error(error) == 408 \in error
is_fatal_error(error) == is_auth_error(error) \/ is_client_error(error)
is_retryable_error(error) ==
  is_server_error(error) \/ is_service_unavailable(error) \/ is_timeout_error(error)

\* error_code = None
NoCode == 0

\* The error code of the log record.  status_code is the number that follows
\* "status code" in str(error), NoCode when the text has no such part.
error_code(status_code, error) ==
  IF status_code # NoCode THEN status_code
  ELSE IF is_429_error(error) THEN 429
  ELSE IF is_auth_error(error) THEN (IF 401 \in error THEN 401 ELSE 403)
  ELSE IF is_client_error(error)
  THEN (IF 400 \in error THEN 400 ELSE IF 404 \in error THEN 404 ELSE 422)
  ELSE IF is_server_error(error)
  THEN (IF 500 \in error THEN 500 ELSE IF 502 \in error THEN 502 ELSE 504)
  ELSE IF is_service_unavailable(error) THEN 503
  ELSE IF is_timeout_error(error) THEN 408
  ELSE NoCode

error_type(error) ==
  IF is_429_error(error) THEN "RATE_LIMIT"
  ELSE IF is_auth_error(error) THEN "AUTH_ERROR"
  ELSE IF is_client_error(error) THEN "CLIENT_ERROR"
  ELSE IF is_server_error(error) THEN "SERVER_ERROR"
  ELSE IF is_service_unavailable(error) THEN "SERVICE_UNAVAILABLE"
  ELSE IF is_timeout_error(error) THEN "TIMEOUT_ERROR"
  ELSE "UNKNOWN_ERROR"

\* What add_error_log can do with a record: store it and answer True, answer
\* False, or raise
Sinks == {"stored", "refused", "raises"}

\* the records the log holds after add_error_log(record)
add_error_log(sink, record) == IF sink = "stored" THEN <<record>> ELSE <<>>

\* a handler that lets the exception of add_error_log through
ErrorLogRaises(sink, r, k, p) ==
  IF sink = "raises" THEN [r EXCEPT !.km = k, !.pool = p, !.raised = TRUE, !.spawn = <<>>]
  ELSE r

\* try: await add_error_log(...) except Exception: the handler goes on to
\* its steps, of result r, whatever the sink did
AfterErrorLog(sink, r, k, p) == r

\* KeyManager.handle_api_failure; key_failure_counts[api_key] raises KeyError
\* for a key the registry does not hold
handle_api_failure(k, p, api_key, retries, model, t1, t2, coin) ==
  IF api_key \notin DOMAIN k.key_failure_counts
  THEN [NoResult(k, p) EXCEPT !.raised = TRUE]
  ELSE IF retries < MAX_RETRIES
  THEN get_next_working_key(IncrementFailure(k, api_key), p, model, t1, t2, coin)
  ELSE NoResult(IncrementFailure(k, api_key), p)

\* Step 1 of the handler: what is done to the key that caused the error
HandleFailedKey(k, p, error, old_key, model, retries, source, t1, t2, coin) ==
  IF is_429_error(error)
  THEN IF model # NoModel
       THEN NoResult(mark_key_model_as_cooling(k, old_key, model, t1),
                     IF source # "key_validation" THEN remove_key_from_pool(k, p, old_key) ELSE p)
       ELSE NoResult(mark_key_as_failed(k, old_key), p)
  ELSE IF is_fatal_error(error)
  THEN NoResult(mark_key_as_failed(k, old_key), p)
  ELSE IF is_retryable_error(error)
  THEN NoResult(k, IF source # "key_validation" THEN remove_key_from_pool(k, p, old_key) ELSE p)
  ELSE handle_api_failure(k, p, old_key, retries, model, t1, t2, coin)

\* r with the tasks of an earlier step of the same call before its own
\* the second of two calls in one handler: the tasks and the counts of the
\* first are kept
After(s1, r) ==
  [r EXCEPT !.spawn = s1.spawn \o @,
            !.stats = [c \in DOMAIN NoStats |-> s1.stats[c] + @[c]]]

\* Steps 2 and 3 of the handler, s1 being the result of step 1
ProvideNewKey(s1, model, source, t1, t2, coin) ==
  IF s1.raised THEN s1
  ELSE IF source = "key_validation"
  THEN [s1 EXCEPT !.ret = NoKey, !.hit = FALSE, !.entry = NoEntry]
  ELSE After(s1, get_next_working_key(s1.km, s1.pool, model, t1, t2, coin))

handle_api_error_and_get_next_key(k, p, error, old_key, model, retries, source, t1, t2, coin) ==
  ProvideNewKey(HandleFailedKey(k, p, error, old_key, model, retries, source, t1, t2, coin),
                model, source, t1, t2, coin)


(***************************************************************************)
(* Verification and the refill tasks                                       *)
(***************************************************************************)
\* What a round-trip of _verify_key answers: no error, or the error raised
Verified == {200}
VerifyOutcomes == {Verified, {401}, {429}, {503}, {}}

\* ErrorProcessor.process_error(key, error, model): the error handler run
\* for a verification, which hands out no new key
process_error(k, p, key, error, model, t, coin) ==
  handle_api_error_and_get_next_key(k, p, error, key, model, 1, "key_validation", t, t, coin)

\* valid_keys.append(ValidKeyWithTTL(key, ttl_hours)); _pool_keys_set.add(key)
AddToPool(p, key, t, j) ==
  [p EXCEPT !.valid_keys = Append(@, NewEntry(key, t, j)),
            !.pool_keys_set = @ \cup {key}]

\* random.sample(population, n): every sequence of n distinct positions
Samples(population, n) ==
  {[i \in 1..n |-> population[q[i]]] :
     q \in {f \in [1..n -> 1..Len(population)] :
              \A a, b \in 1..n : a # b => f[a] # f[b]}}

\* a result loop that appends nothing
AppendNone(p, sel, ok, limit, t, j) == p

\* the result loop of the refill tasks: the verified keys are appended in the
\* order of selection until the pool holds `limit` entries
RECURSIVE AppendVerified(_, _, _, _, _, _)
AppendVerified(p, sel, ok, limit, t, j) ==
  IF sel = <<>> THEN p
  ELSE IF Head(sel) \notin ok THEN AppendVerified(p, Tail(sel), ok, limit, t, j)
  ELSE IF Len(p.valid_keys) >= limit THEN p
  ELSE AppendVerified(AddToPool(p, Head(sel), t, j), Tail(sel), ok, limit, t, j)

\* a task that appends the verified key without looking at the pool's size
VerifiedKeyUnchecked(k, p, key, outcome, t, j, coin) ==
  IF outcome = Verified
  THEN NoResult(reset_key_failure_count(k, key), AddToPool(p, key, t, j))
  ELSE process_error(k, p, key, outcome, TEST_MODEL, t, coin)

\* what follows the round-trip of _verify_key in the task that awaited it
VerifiedKey(k, p, key, outcome, t, j, coin) ==
  IF outcome = Verified
  THEN NoResult(reset_key_failure_count(k, key),
                IF Len(p.valid_keys) < POOL_SIZE THEN AddToPool(p, key, t, j) ELSE p)
  ELSE process_error(k, p, key, outcome, TEST_MODEL, t, coin)

Verifying(task, sel) == [task EXCEPT !.pc = "verifying", !.sel = sel, !.pending = Range(sel)]

\* async_verify_and_add up to the round-trip of _verify_key: the candidates
AsyncVerifyCandidates ==
  LET available_keys ==
        SelectSeq(km.api_keys, LAMBDA key : is_key_valid(km, key) /\ ~InAnyCooldown(km, key, now))
  IN {key \in Range(available_keys) :
        key \notin pool.pool_keys_set /\ key \notin pool.verifying_keys}

\* emergency_refill_async up to asyncio.gather: the selections
RefillAsyncSelections ==
  LET needed == POOL_MIN_THRESHOLD - Len(pool.valid_keys)
      refill_count == Min(EMERGENCY_REFILL_COUNT, needed)
      available_keys == SelectSeq(km.api_keys, LAMBDA key : is_key_valid(km, key))
  IN IF needed <= 0 \/ available_keys = <<>> THEN {}
     ELSE Samples(available_keys, Min(refill_count, Len(available_keys)))

\* _background_emergency_refill up to asyncio.gather: the selections
BackgroundSelections ==
  LET available_keys ==
        SelectSeq(km.api_keys, LAMBDA key : is_key_valid(km, key) /\ key \notin pool.pool_keys_set)
  IN IF available_keys = <<>> THEN {}
     ELSE Samples(available_keys, Min(EMERGENCY_REFILL_COUNT, Len(available_keys)))

(***************************************************************************)
(* Config reload: reset_key_manager_instance, get_key_manager_instance     *)
(***************************************************************************)
NoPreserved == [failure_counts |-> <<>>, pool_keys |-> <<>>]

\* what reset_key_manager_instance keeps; the hint of the next key is never
\* kept (get_next_key() is called without its argument)
Preserve(k, p) ==
  [failure_counts |-> k.key_failure_counts,
   pool_keys |-> IF k.valid_key_pool THEN p.valid_keys ELSE <<>>]

\* the KeyManager that get_key_manager_instance(api_keys) builds from what
\* was preserved
RestoredKeyManager(api_keys, kept) ==
  LET fresh == NewKeyManager(api_keys, settings.VALID_KEY_POOL_ENABLED) IN
  IF DOMAIN kept.failure_counts = {} THEN fresh
  ELSE [fresh EXCEPT !.key_failure_counts =
          [key \in Range(api_keys) |->
             IF key \in DOMAIN kept.failure_counts THEN kept.failure_counts[key] ELSE 0]]

\* the restoration loop over _preserved_valid_key_pool_keys at time t
RECURSIVE RestorePool(_, _, _, _)
RestorePool(p, kept_keys, api_keys, t) ==
  IF kept_keys = <<>> THEN p
  ELSE LET key_obj == Head(kept_keys)
           p2 == IF key_obj.key \in Range(api_keys) /\ ~is_expired(key_obj, t)
                 THEN [p EXCEPT !.valid_keys = DequeAppend(@, key_obj, POOL_SIZE)]
                 ELSE p
       IN RestorePool(p2, Tail(kept_keys), api_keys, t)

(***************************************************************************)
(* The stream retry engine (app/handler/stream_retry_handler.py).          *)
(*                                                                         *)
(* A text is the sequence of its characters; the characters of the model   *)
(* are a letter, a full stop, a blank and a newline.  An upstream line is  *)
(* the record of what the helpers read from it.                            *)
(***************************************************************************)
Chars == {"a", ".", " ", "\n"}
\* the members of FINAL_PUNCTUATION among Chars
FINAL_PUNCTUATION == {".", "\n"}
\* what str.strip() removes
Whitespace == {" ", "\n"}
None == "None"
max_retries == 2                      \* settings.MAX_STREAM_RETRIES, as passed

MaxText == 2                          \* characters a session accumulates
MaxLines == 2                         \* lines read from one response

\* str.strip(): the text without its leading and trailing whitespace
strip(text) ==
  IF \A i \in 1..Len(text) : text[i] \in Whitespace THEN <<>>
  ELSE SubSeq(text,
              CHOOSE i \in 1..Len(text) :
                 text[i] \notin Whitespace /\ \A j \in 1..(i-1) : text[j] \in Whitespace,
              CHOOSE i \in 1..Len(text) :
                 text[i] \notin Whitespace /\ \A j \in (i+1)..Len(text) : text[j] \in Whitespace)

\* text[-1:]: the last character, the empty string for the empty text
last_char(text) == IF text = <<>> THEN "" ELSE text[Len(text)]

\* a "data: " line carrying one candidate with one part
Chunk(text, thought, finishReason) ==
  [data |-> TRUE, text |-> text, thought |-> thought,
   finishReason |-> finishReason, blockReason |-> FALSE]

\* the lines an upstream response can consist of
Lines ==
  {Chunk(<<c>>, FALSE, fr) : c \in Chars, fr \in {None, "STOP", "MAX_TOKENS"}}
  \cup {Chunk(<<>>, FALSE, fr) : fr \in {None, "STOP", "MAX_TOKENS", "SAFETY"}}
  \cup {Chunk(<<"a">>, TRUE, fr) : fr \in {None, "STOP"}}
  \cup {[Chunk(<<>>, FALSE, None) EXCEPT !.blockReason = TRUE],
        [Chunk(<<"a">>, FALSE, None) EXCEPT !.data = FALSE]}

is_data_line(line) == line.data

is_blocked_line(line) == line.blockReason

extract_finish_reason(line) == line.finishReason

parse_line_content(line) == [text |-> line.text, is_thought |-> line.thought]

\* line 153: only a data line is parsed
line_content(line) ==
  IF is_data_line(line) THEN parse_line_content(line)
  ELSE [text |-> <<>>, is_thought |-> FALSE]

\* one turn of a conversation
Turn(role, text) == [role |-> role, parts |-> <<[text |-> text]>>]

ContinuePrompt ==
  <<"Continue exactly where you left off without any preamble or repetition.">>

\* the request bodies of the model: a conversation whose last user turn is
\* not its last turn, one without a user turn, and a body without "contents"
Bodies ==
  {[contents |-> <<Turn("user", <<"q1">>), Turn("model", <<"r1">>),
                   Turn("user", <<"q2">>), Turn("model", <<"r2">>)>>],
   [contents |-> <<Turn("model", <<"r1">>)>>],
   [systemInstruction |-> <<"s">>]}

\* the two turns of the retry context
history(accumulated_text) ==
  <<Turn("model", accumulated_text), Turn("user", ContinuePrompt)>>

\* lines 95-99: the index of the last user turn, 0 (for -1) without one
last_user_index(contents) ==
  IF \E i \in 1..Len(contents) : contents[i].role = "user"
  THEN CHOOSE i \in 1..Len(contents) :
         contents[i].role = "user" /\ \A j \in (i+1)..Len(contents) : contents[j].role # "user"
  ELSE 0

\* the retry context always at the tail
append_retry_context(original_body, accumulated_text) ==
  [contents |-> (IF "contents" \in DOMAIN original_body THEN original_body.contents ELSE <<>>)
                \o history(accumulated_text)] @@ original_body

\* The copy (json.loads(json.dumps(...))) of a body read from JSON is the
\* same value, and the original is a different object that is never written.
build_retry_request_body(original_body, accumulated_text) ==
  LET contents == IF "contents" \in DOMAIN original_body THEN original_body.contents ELSE <<>>
      i == last_user_index(contents)
  IN [contents |-> IF i # 0
                   THEN SubSeq(contents, 1, i) \o history(accumulated_text)
                        \o SubSeq(contents, i + 1, Len(contents))
                   ELSE contents \o history(accumulated_text)] @@ original_body

\* the locals of process_stream_and_retry_internally before its first step,
\* and what the generator has yielded
NewSession(original_request_body, swallow_thoughts) ==
  [pc |-> "reading",
   original_request_body |-> original_request_body,
   swallow_thoughts |-> swallow_thoughts,
   accumulated_text |-> <<>>,
   consecutive_retry_count |-> 0,
   current_response |-> "open",
   is_outputting_formal_text |-> FALSE,
   swallow_mode_active |-> FALSE,
   interruption_reason |-> None,
   clean_exit |-> FALSE,
   text_in_this_stream |-> <<>>,
   lines |-> <<>>,
   yielded |-> <<>>,
   retry_body |-> [contents |-> <<>>],
   error_events |-> 0,
   raised |-> FALSE]

\* no session runs
NoSession == [NewSession([contents |-> <<>>], FALSE) EXCEPT !.pc = "idle"]

\* lines 140-144: the locals of one attempt
NextAttempt(s) ==
  [s EXCEPT !.pc = "reading", !.interruption_reason = None, !.clean_exit = FALSE,
            !.text_in_this_stream = <<>>, !.lines = <<>>, !.yielded = <<>>]

\* lines 208-242: the end of an attempt, with the final check for completeness
AttemptOver(s) ==
  LET reason == IF ~s.clean_exit /\ s.interruption_reason = None
                THEN "DROP" ELSE s.interruption_reason
      incomplete == /\ s.clean_exit
                    /\ s.accumulated_text # <<>>
                    /\ last_char(strip(s.accumulated_text)) \notin FINAL_PUNCTUATION
  IN [s EXCEPT !.current_response = "closed",
               !.clean_exit = s.clean_exit /\ ~incomplete,
               !.interruption_reason = IF incomplete THEN "FINISH_INCOMPLETE" ELSE reason,
               !.pc = IF s.clean_exit /\ ~incomplete THEN "done" ELSE "interrupted"]

\* lines 172-191: the reason for which a line interrupts the attempt
Interruption(accumulated_text, line) ==
  LET finish_reason == extract_finish_reason(line)
      text_chunk == line_content(line).text
      trimmed_text == strip(accumulated_text \o text_chunk)
  IN IF finish_reason # None /\ line_content(line).is_thought THEN "FINISH_DURING_THOUGHT"
     ELSE IF is_blocked_line(line) THEN "BLOCK"
     ELSE IF finish_reason = "STOP"
     THEN IF ~(Len(trimmed_text) = 0 \/ last_char(trimmed_text) \in FINAL_PUNCTUATION)
          THEN "FINISH_INCOMPLETE" ELSE None
     ELSE IF finish_reason # None /\ finish_reason \notin {"MAX_TOKENS", "STOP"}
     THEN "FINISH_ABNORMAL"
     ELSE None

\* no line is held back for a retry
yield_before_break(needs_retry) == FALSE

\* lines 193-194: the loop is left before the line is yielded
break_before_yield(needs_retry) == needs_retry

\* a line that is yielded without its text being accumulated
ForwardUnaccumulated(s, line) ==
  LET y == [s EXCEPT !.yielded = Append(@, line)]
  IN IF extract_finish_reason(line) \in {"STOP", "MAX_TOKENS"}
     THEN AttemptOver([y EXCEPT !.clean_exit = TRUE])
     ELSE y

\* lines 196-206: the line is yielded, its formal text accumulated
Forward(s, line) ==
  LET text_chunk == line_content(line).text
      formal == text_chunk # <<>> /\ ~line_content(line).is_thought
      y == [s EXCEPT !.yielded = Append(@, line),
                     !.is_outputting_formal_text = @ \/ formal,
                     !.accumulated_text = IF formal THEN @ \o text_chunk ELSE @,
                     !.text_in_this_stream = IF formal THEN @ \o text_chunk ELSE @]
  IN IF extract_finish_reason(line) \in {"STOP", "MAX_TOKENS"}
     THEN AttemptOver([y EXCEPT !.clean_exit = TRUE])
     ELSE y

\* lines 169-206: a line that is not swallowed
Inspect(s, line) ==
  LET reason == Interruption(s.accumulated_text, line) IN
  IF break_before_yield(reason # None)
  THEN AttemptOver([s EXCEPT !.interruption_reason = reason])
  ELSE Forward(s, line)

\* line 157: the lines the swallow mode holds back
swallowed(s, line) == line_content(line).is_thought

\* lines 150-206: one turn of the loop over the lines of the response
LoopBody(s, line) ==
  LET read == [s EXCEPT !.lines = Append(@, line)] IN
  IF s.swallow_mode_active
  THEN IF swallowed(s, line)
       THEN IF extract_finish_reason(line) # None
            THEN AttemptOver([read EXCEPT !.interruption_reason = "FINISH_DURING_THOUGHT"])
            ELSE read
       ELSE Inspect([read EXCEPT !.swallow_mode_active = FALSE], line)
  ELSE Inspect(read, line)

\* lines 244-267: after an interruption, the error event at the retry limit
\* or the continuation request
AfterInterruption(s) ==
  LET sw == [s EXCEPT !.swallow_mode_active =
                         @ \/ (s.swallow_thoughts /\ s.is_outputting_formal_text)]
  IN IF s.consecutive_retry_count >= max_retries
     THEN [sw EXCEPT !.error_events = @ + 1, !.pc = "done"]
     ELSE [sw EXCEPT !.consecutive_retry_count = @ + 1,
                     !.retry_body = build_retry_request_body(s.original_request_body,
                                                             s.accumulated_text),
                     !.pc = "requesting"]

(***************************************************************************)
(* The retry driver (app/handler/retry_handler.py): RetryHandler.__call__. *)
(* An exception is named by who raised it and the status codes in its text.*)
(***************************************************************************)
NoException == [raised_by |-> "nobody", error |-> {}]

\* no wrapped function is being called
NoCall ==
  [pc |-> "idle", attempt |-> 0, api_key |-> NoKey, model_name |-> NoModel,
   key_manager |-> FALSE, last_exception |-> NoException, calls |-> 0,
   exception |-> NoException, log |-> <<>>]

\* lines 74-77: the loop is over, last_exception is raised
RaiseLast(c) == [c EXCEPT !.pc = "raised", !.exception = c.last_exception]

\* line 26: the next attempt of range(settings.MAX_RETRIES)
NextTry(c) ==
  IF c.attempt + 1 < MAX_RETRIES THEN [c EXCEPT !.attempt = @ + 1, !.pc = "calling"]
  ELSE RaiseLast(c)

\* lines 49-72: what the wrapper does with the answer r of the error handler
AfterHandler(c, r) ==
  IF r.raised
  THEN [c EXCEPT !.pc = "raised",
                 !.exception = [raised_by |-> "handle_api_error_and_get_next_key",
                                error |-> {}]]
  ELSE IF r.ret # NoKey /\ r.ret # c.api_key THEN NextTry([c EXCEPT !.api_key = r.ret])
  ELSE RaiseLast(c)

(***************************************************************************)
(* Actions                                                                 *)
(***************************************************************************)
NoTasks == EmptyBag

RECURSIVE AddTasks(_, _)
AddTasks(bag, new) ==
  IF new = <<>> THEN bag ELSE AddTasks(bag (+) SetToBag({Head(new)}), Tail(new))

Replace(bag, old, new) == (bag (-) SetToBag({old})) (+) SetToBag({new})

Finish(bag, old) == bag (-) SetToBag({old})

\* what a call that just returned did: its arguments and its result; a
\* reset also shows the registry and the pool it found (before)
Observed(op, key, model, error, r) ==
  [op |-> op, key |-> key, model |-> model, error |-> error, ret |-> r.ret,
   raised |-> r.raised, hit |-> r.hit, entry |-> r.entry,
   usage_exhausted |-> r.usage_exhausted, spawned |-> Len(r.spawn),
   stats |-> r.stats, before |-> <<>>, status_code |-> NoCode, sink |-> "stored", log |-> <<>>]

\* the observation o of a run of the error handler, with what its call of
\* add_error_log left in the log
Logged(o, status_code, sink) ==
  [o EXCEPT !.status_code = status_code,
            !.sink = sink,
            !.log = add_error_log(sink, [gemini_key |-> o.key, model_name |-> o.model,
                                         error_type |-> error_type(o.error),
                                         error_code |-> error_code(status_code, o.error)])]

\* no call has just returned
Quiet == Observed("none", NoKey, NoModel, {}, NoResult(km, pool))

DefaultSettings ==
  [VALID_KEY_POOL_ENABLED |-> TRUE,
   PRO_MODEL_MAX_USAGE |-> PRO_MODEL_MAX_USAGE,
   NON_PRO_MODEL_MAX_USAGE |-> NON_PRO_MODEL_MAX_USAGE]

\* the state after start-up under the settings s
InitWith(s) ==
  /\ settings = s
  /\ km = NewKeyManager(ApiKeys, s.VALID_KEY_POOL_ENABLED)
  /\ pool = NewPool
  /\ tasks = NoTasks
  /\ now = 1
  /\ last = Quiet
  /\ preserved = NoPreserved
  /\ sre = NoSession
  /\ rh = NoCall

Init == InitWith(DefaultSettings)

Bounded(k, p, bag) ==
  /\ \A x \in DOMAIN k.key_failure_counts : k.key_failure_counts[x] <= FailCap
  /\ \A i \in 1..Len(p.valid_keys) : p.valid_keys[i].usage_count <= MaxUsage
  /\ BagCardinality(bag) <= MaxTasks

\* A request: key_manager.get_next_working_key(model_name).  The clock is read
\* by the sweep (now) and again by the checks (t2).
Checkout(model, t2, coin) ==
  \E r \in {get_next_working_key(km, pool, model, now, t2, coin)} :
  /\ km.singleton
  /\ Bounded(r.km, r.pool, AddTasks(tasks, r.spawn))
  /\ km' = r.km
  /\ pool' = r.pool
  /\ tasks' = AddTasks(tasks, r.spawn)
  /\ now' = t2
  /\ last' = Observed("checkout", NoKey, model, {}, r)
  /\ UNCHANGED <<preserved, settings, sre, rh>>

\* A failed upstream call on old_key: handle_api_error_and_get_next_key
\* handle_api_error_and_get_next_key(key_manager, error, old_key, model_name,
\* retries): the error log, then the steps of the handler
ApiErrorHandled(status_code, error, old_key, model, retries, coin, sink) ==
  \E r \in {AfterErrorLog(sink,
                          handle_api_error_and_get_next_key(km, pool, error, old_key, model,
                                                            retries, "unknown", now, now, coin),
                          km, pool)} :
  /\ km.singleton
  /\ Bounded(r.km, r.pool, AddTasks(tasks, r.spawn))
  /\ km' = r.km
  /\ pool' = r.pool
  /\ tasks' = AddTasks(tasks, r.spawn)
  /\ last' = Logged(Observed("handle_error", old_key, model, error, r), status_code, sink)
  /\ UNCHANGED <<now, preserved, settings, sre, rh>>

\* an error whose text has no "status code" part, and a log that stores
HandleApiError(error, old_key, model, retries, coin) ==
  ApiErrorHandled(NoCode, error, old_key, model, retries, coin, "stored")

ResetKeyFailureCount(key) ==
  /\ km.singleton
  /\ km' = reset_key_failure_count(km, key)
  /\ last' = Quiet
  /\ UNCHANGED <<pool, tasks, now, preserved, settings, sre, rh>>

ResetFailureCounts ==
  /\ km.singleton
  /\ km' = reset_failure_counts(km)
  /\ last' = Quiet
  /\ UNCHANGED <<pool, tasks, now, preserved, settings, sre, rh>>

RemoveKey(key) ==
  \E r \in {remove_key(km, pool, key)} :
  /\ km.singleton
  /\ km' = r.km
  /\ pool' = r.pool
  /\ last' = Quiet
  /\ UNCHANGED <<tasks, now, preserved, settings, sre, rh>>

Tick ==
  /\ now < MaxTime
  /\ now' = now + 1
  /\ last' = Quiet
  /\ UNCHANGED <<km, pool, tasks, preserved, settings, sre, rh>>

\* reset_key_manager_instance: the singleton is dropped, its background tasks
\* go on with the dropped objects
ResetKeyManagerInstance ==
  /\ km.singleton
  /\ preserved' = Preserve(km, pool)
  /\ km' = [km EXCEPT !.singleton = FALSE]
  /\ tasks' = NoTasks
  /\ last' = [Quiet EXCEPT !.op = "reset", !.before = <<[km |-> km, pool |-> pool]>>]
  /\ UNCHANGED <<pool, now, settings, sre, rh>>

\* get_key_manager_instance(api_keys) after a reset
GetKeyManagerInstance(api_keys) ==
  /\ ~km.singleton
  /\ km' = RestoredKeyManager(api_keys, preserved)
  /\ pool' = IF km'.valid_key_pool
             THEN RestorePool(NewPool, preserved.pool_keys, api_keys, now)
             ELSE NewPool
  /\ preserved' = NoPreserved
  /\ last' = IF last.op = "reset" THEN [last EXCEPT !.op = "reinit"] ELSE Quiet
  /\ UNCHANGED <<tasks, now, settings, sre, rh>>

\* _verify_key and _verify_key_for_emergency count the verification as they
\* begin, before the round-trip
VerificationsBegun(n) == [Quiet EXCEPT !.stats.total_verifications = n]

\* what the caller of _verify_key counts after the round-trip:
\* async_verify_and_add counts the key it appended and the failure,
\* _revalidate_and_readd_key counts nothing
VerifyKeyCounted(kind, outcome, p) ==
  IF kind # "verify_add" THEN NoStats
  ELSE IF outcome # Verified THEN [NoStats EXCEPT !.verification_failures = 1]
  ELSE IF Len(p.valid_keys) < POOL_SIZE THEN [NoStats EXCEPT !.successful_verifications = 1]
  ELSE NoStats

\* what _verify_key_for_emergency counts after the round-trip
EmergencyCounted(success) ==
  IF success THEN [NoStats EXCEPT !.successful_verifications = 1]
  ELSE [NoStats EXCEPT !.verification_failures = 1]

\* async_verify_and_add from its start to the await of the round-trip (or to
\* its early return); it holds a permit of the semaphore from here on
StartAsyncVerifyAndAdd(task) ==
  /\ task.kind = "verify_add" /\ task.pc = "start"
  /\ pool.permits > 0
  /\ IF Len(pool.valid_keys) >= POOL_SIZE \/ AsyncVerifyCandidates = {}
     THEN /\ tasks' = Finish(tasks, task)
          /\ last' = Quiet
          /\ UNCHANGED pool
     ELSE \E selected_key \in AsyncVerifyCandidates :
          /\ pool' = [pool EXCEPT !.permits = @ - 1,
                                  !.verifying_keys = @ \cup {selected_key}]
          /\ tasks' = Replace(tasks, task, Verifying(task, <<selected_key>>))
          /\ last' = VerificationsBegun(1)
  /\ UNCHANGED <<km, now, preserved, settings, sre, rh>>

\* _revalidate_and_readd_key from its start to the await of the round-trip;
\* _verify_key answers False at once for a key that is being verified
StartRevalidate(task) ==
  /\ task.kind = "revalidate" /\ task.pc = "start"
  /\ pool.permits > 0
  /\ IF Len(pool.valid_keys) >= POOL_SIZE \/ task.key \in pool.pool_keys_set
     THEN /\ tasks' = Finish(tasks, task)
          /\ last' = Quiet
          /\ UNCHANGED pool
     ELSE IF task.key \in pool.verifying_keys
     THEN /\ tasks' = Finish(tasks, task)
          /\ last' = VerificationsBegun(1)
          /\ UNCHANGED pool
     ELSE /\ pool' = [pool EXCEPT !.permits = @ - 1,
                                  !.verifying_keys = @ \cup {task.key}]
          /\ tasks' = Replace(tasks, task, Verifying(task, <<task.key>>))
          /\ last' = VerificationsBegun(1)
  /\ UNCHANGED <<km, now, preserved, settings, sre, rh>>

\* The round-trip of _verify_key ends and its caller (async_verify_and_add or
\* _revalidate_and_readd_key) runs to its end, releasing the permit
VerifyKeyDone(task, outcome, j, coin) ==
  /\ task.kind \in {"verify_add", "revalidate"} /\ task.pc = "verifying"
  /\ \E r \in {VerifiedKey(km, [pool EXCEPT !.permits = @ + 1,
                                              !.verifying_keys = @ \ {task.sel[1]}],
                             task.sel[1], outcome, now, j, coin)} :
        /\ Bounded(r.km, r.pool, AddTasks(Finish(tasks, task), r.spawn))
        /\ km' = r.km
        /\ pool' = r.pool
        /\ tasks' = AddTasks(Finish(tasks, task), r.spawn)
        /\ \E o \in {[Observed("verified", task.sel[1], TEST_MODEL, outcome, r)
                          EXCEPT !.stats = VerifyKeyCounted(task.kind, outcome, pool)]} :
              last' = IF outcome = Verified THEN o ELSE Logged(o, NoCode, "stored")
  /\ UNCHANGED <<now, preserved, settings, sre, rh>>

\* emergency_refill_async from its start to asyncio.gather
StartEmergencyRefillAsync(task) ==
  /\ task.kind = "refill_async" /\ task.pc = "start"
  /\ pool.permits > 0
  /\ IF RefillAsyncSelections = {}
     THEN /\ tasks' = Finish(tasks, task)
          /\ last' = Quiet
          /\ UNCHANGED pool
     ELSE \E selected_keys \in RefillAsyncSelections :
          /\ pool' = [pool EXCEPT !.permits = @ - 1]
          /\ tasks' = Replace(tasks, task, Verifying(task, selected_keys))
          /\ last' = VerificationsBegun(Len(selected_keys))
  /\ UNCHANGED <<km, now, preserved, settings, sre, rh>>

\* _background_emergency_refill from its start to asyncio.gather
StartBackgroundEmergencyRefill(task) ==
  /\ task.kind = "bg_refill" /\ task.pc = "start"
  /\ IF emergency_lock_locked(pool)
     THEN /\ tasks' = Finish(tasks, task)
          /\ last' = [Quiet EXCEPT !.op = "refill_skipped"]
          /\ UNCHANGED pool
     ELSE IF BackgroundSelections = {}
     THEN /\ tasks' = Finish(tasks, task)
          /\ last' = Quiet
          /\ UNCHANGED pool
     ELSE \E selected_keys \in BackgroundSelections :
          /\ pool' = [pool EXCEPT !.emergency_lock = TRUE]
          /\ tasks' = Replace(tasks, task, Verifying(task, selected_keys))
          /\ last' = VerificationsBegun(Len(selected_keys))
  /\ UNCHANGED <<km, now, preserved, settings, sre, rh>>

\* One round-trip of _verify_key_for_emergency ends inside asyncio.gather
EmergencyVerifyDone(task, key, success) ==
  /\ task.kind \in {"refill_async", "bg_refill"} /\ task.pc = "verifying"
  /\ key \in task.pending
  /\ km' = IF success THEN reset_key_failure_count(km, key) ELSE km
  /\ tasks' = Replace(tasks, task,
                      [task EXCEPT !.pending = @ \ {key},
                                   !.ok = IF success THEN @ \cup {key} ELSE @])
  /\ last' = [Quiet EXCEPT !.op = IF success THEN "emergency_verified"
                                            ELSE "emergency_failed",
                           !.key = key,
                           !.stats = EmergencyCounted(success)]
  /\ UNCHANGED <<pool, now, preserved, settings, sre, rh>>

\* The mutexes a background task holds where it stands.  Only
\* _background_emergency_refill takes one: emergency_lock, from before its
\* selection to its end.  get_key_lock and failure_count_lock are taken and
\* released inside the steps of the requests, which await no round-trip.
LocksHeld(task) ==
  IF task.kind = "bg_refill" /\ task.pc = "verifying" THEN {"emergency_lock"} ELSE {}

\* a refill that counts itself whether or not it added a key
GatheredAlwaysCounted(p, kind, success_count) ==
  IF kind = "refill_async"
  THEN [p EXCEPT !.permits = @ + 1]
  ELSE [p EXCEPT !.emergency_lock = FALSE, !.emergency_refill_count = @ + 1]

\* the end of a refill task that added success_count keys: the semaphore's
\* permit is released (emergency_refill_async), or the lock is, after
\* stats["emergency_refill_count"] counted a refill that added a key
Gathered(p, kind, success_count) ==
  IF kind = "refill_async"
  THEN [p EXCEPT !.permits = @ + 1]
  ELSE [p EXCEPT !.emergency_lock = FALSE,
                 !.emergency_refill_count = IF success_count > 0 THEN @ + 1 ELSE @]

\* asyncio.gather has every result: the refill task appends the verified keys
\* and releases what it holds (the permit, or the emergency lock)
RefillGathered(task, j) ==
  /\ task.kind \in {"refill_async", "bg_refill"} /\ task.pc = "verifying"
  /\ task.pending = {}
  /\ \E p \in {AppendVerified(pool, task.sel, task.ok, POOL_SIZE, now, j)} :
       /\ pool' = Gathered(p, task.kind, Len(p.valid_keys) - Len(pool.valid_keys))
       /\ pool'.emergency_refill_count <= MaxRefills
  /\ tasks' = Finish(tasks, task)
  /\ last' = [Quiet EXCEPT !.op = "gathered"]
  /\ UNCHANGED <<km, now, preserved, settings, sre, rh>>

\* a cancelled _verify_key that leaves its key in _verifying_keys
CancelledKeyKept(p, task) == [p EXCEPT !.permits = @ + 1]

\* the finally blocks of a cancelled _verify_key and of its caller: the key
\* leaves _verifying_keys, the permit goes back to the semaphore
CancelledVerifyKey(p, task) ==
  [p EXCEPT !.permits = @ + 1, !.verifying_keys = @ \ {task.sel[1]}]

\* A task is cancelled while it awaits the round-trips of its verifications:
\* CancelledError is raised at the await, _verify_key and
\* _verify_key_for_emergency re-raise it, the finally of _verify_key discards
\* the key from _verifying_keys, and the semaphore's permit or the emergency
\* lock is released as the exception leaves the async with
CancelVerification(task) ==
  /\ task.pc = "verifying" /\ task.pending # {}
  /\ pool' = IF task.kind \in {"verify_add", "revalidate"}
             THEN CancelledVerifyKey(pool, task)
             ELSE IF task.kind = "refill_async"
             THEN [pool EXCEPT !.permits = @ + 1]
             ELSE [pool EXCEPT !.emergency_lock = FALSE]
  /\ tasks' = Finish(tasks, task)
  /\ last' = [Quiet EXCEPT !.op = "cancelled",
                            !.key = IF task.kind \in {"verify_add", "revalidate"}
                                    THEN task.sel[1] ELSE NoKey]
  /\ UNCHANGED <<km, now, preserved, settings, sre, rh>>

\* requests for the models, the sweep and the checks `delays` apart
Requests(models, delays, coins) ==
  \E model \in models, d \in delays, coin \in coins :
     now + d <= MaxTime /\ Checkout(model, now + d, coin)

Failures(errors, models, coins) ==
  \E error \in errors, old_key \in Keys, model \in models,
     retries \in 1..MAX_RETRIES, coin \in coins :
     HandleApiError(error, old_key, model, retries, coin)

\* The status codes of the upstream, 418 standing for every code the handler
\* has no rule for
StatusCodes == {429, 401, 403, 400, 404, 422, 408, 500, 502, 504, 503, 418}

\* Errors "... status code <c> ...": the status code and the set of codes that
\* occur in the text, which holds c and whatever the rest of the text (the
\* body of the answer, the URL of the request) spells; and an error without a
\* status code (a transport error)
ApiErrors ==
  {<<c, {c} \cup rest>> : c \in StatusCodes, rest \in {{}, {429}}} \cup {<<NoCode, {}>>}

UpstreamErrors(errors, models, coins, sinks) ==
  \E e \in errors, old_key \in Keys, model \in models,
     retries \in 1..MAX_RETRIES, coin \in coins, sink \in sinks :
     ApiErrorHandled(e[1], e[2], old_key, model, retries, coin, sink)

Administration ==
  \/ \E key \in Keys : ResetKeyFailureCount(key)
  \/ ResetFailureCounts
  \/ \E key \in Keys : RemoveKey(key)

ReloadKeys == {<<"A", "B">>, <<"B">>}

ConfigReload ==
  \/ ResetKeyManagerInstance
  \/ \E api_keys \in ReloadKeys : GetKeyManagerInstance(api_keys)

\* the steps of the emergency refills (emergency_refill_async and
\* _background_emergency_refill)
EmergencySteps ==
  \/ \E task \in BagToSet(tasks) : StartEmergencyRefillAsync(task)
  \/ \E task \in BagToSet(tasks) : StartBackgroundEmergencyRefill(task)
  \/ \E task \in BagToSet(tasks), key \in Keys, success \in BOOLEAN :
        EmergencyVerifyDone(task, key, success)
  \/ \E task \in BagToSet(tasks), j \in JitterRange : RefillGathered(task, j)

\* the steps of the verifications under the semaphore (async_verify_and_add
\* and _revalidate_and_readd_key)
StartVerifySteps ==
  \/ \E task \in BagToSet(tasks) : StartAsyncVerifyAndAdd(task)
  \/ \E task \in BagToSet(tasks) : StartRevalidate(task)

VerifyDoneSteps(outcomes, coins) ==
  \E task \in BagToSet(tasks), outcome \in outcomes, j \in JitterRange, coin \in coins :
     VerifyKeyDone(task, outcome, j, coin)

TaskStep(outcomes, coins) ==
  \/ EmergencySteps
  \/ StartVerifySteps
  \/ VerifyDoneSteps(outcomes, coins)

(***************************************************************************)
(* Actions of the stream retry engine.  The generator runs from one read   *)
(* of the upstream response, or from the continuation request, to the next.*)
(***************************************************************************)
\* process_stream_and_retry_internally(initial_response, original_request_body, ...)
StartSession(original_request_body, swallow_thoughts) ==
  /\ sre.pc = "idle"
  /\ sre' = NewSession(original_request_body, swallow_thoughts)
  /\ UNCHANGED <<km, pool, tasks, now, last, preserved, settings, rh>>

\* the response hands out its next line
ReadLine(line) ==
  /\ sre.pc = "reading"
  /\ sre.current_response = "open"
  /\ Len(sre.lines) < MaxLines
  /\ Len(sre.accumulated_text) + Len(line.text) <= MaxText
  /\ sre' = LoopBody(sre, line)
  /\ UNCHANGED <<km, pool, tasks, now, last, preserved, settings, rh>>

\* the response ends: the loop is left without a break
StreamEnds ==
  /\ sre.pc = "reading"
  /\ sre.current_response = "open"
  /\ sre' = AttemptOver(sre)
  /\ UNCHANGED <<km, pool, tasks, now, last, preserved, settings, rh>>

\* lines 212-214: the read raises httpx.RequestError
StreamFails ==
  /\ sre.pc = "reading"
  /\ sre.current_response = "open"
  /\ sre' = AttemptOver([sre EXCEPT !.interruption_reason = "FETCH_ERROR"])
  /\ UNCHANGED <<km, pool, tasks, now, last, preserved, settings, rh>>

\* Line 149 on the response of the attempt before, which line 217 closed:
\* httpx raises StreamConsumed, a RuntimeError that line 212 does not catch
\* and the generator passes on; a response that can be read again has no
\* line left.
ReadClosed(outcome) ==
  /\ sre.pc = "reading"
  /\ sre.current_response = "closed"
  /\ sre' = IF outcome = "StreamConsumed" THEN [sre EXCEPT !.raised = TRUE, !.pc = "done"]
            ELSE AttemptOver(sre)
  /\ UNCHANGED <<km, pool, tasks, now, last, preserved, settings, rh>>

\* lines 244-267: the error event, or the continuation request is sent
Interrupted ==
  /\ sre.pc = "interrupted"
  /\ sre' = AfterInterruption(sre)
  /\ UNCHANGED <<km, pool, tasks, now, last, preserved, settings, rh>>

\* lines 267-272: the continuation request opened a stream
RetryOpened ==
  /\ sre.pc = "requesting"
  /\ sre' = [NextAttempt(sre) EXCEPT !.current_response = "open"]
  /\ UNCHANGED <<km, pool, tasks, now, last, preserved, settings, rh>>

\* lines 274-278: the continuation request raised; current_response stays
RetryFailed ==
  /\ sre.pc = "requesting"
  /\ sre' = NextAttempt(sre)
  /\ UNCHANGED <<km, pool, tasks, now, last, preserved, settings, rh>>

(***************************************************************************)
(* Actions of the retry driver.  The wrapper runs from one await of the    *)
(* wrapped function to the next.                                           *)
(***************************************************************************)
\* wrapper(*args, **kwargs): a client request enters the loop
WrapperCalled(api_key, model_name, key_manager) ==
  /\ rh.pc # "calling"
  /\ rh' = IF MAX_RETRIES > 0
           THEN [NoCall EXCEPT !.pc = "calling", !.api_key = api_key,
                               !.model_name = model_name, !.key_manager = key_manager]
           ELSE [NoCall EXCEPT !.pc = "raised",
                               !.exception = [raised_by |-> "raise None", error |-> {}]]
  /\ UNCHANGED <<km, pool, tasks, now, last, preserved, settings, sre>>

\* line 29: func returns
FuncReturns ==
  /\ rh.pc = "calling"
  /\ rh' = [rh EXCEPT !.calls = @ + 1, !.pc = "returned"]
  /\ UNCHANGED <<km, pool, tasks, now, last, preserved, settings, sre>>

\* lines 30-72: func raises e
FuncRaises(error, coin, sink) ==
  /\ rh.pc = "calling"
  /\ \E c \in {[rh EXCEPT !.calls = @ + 1,
                          !.last_exception = [raised_by |-> "func", error |-> error]]} :
     IF ~rh.key_manager
     THEN rh' = NextTry(c) /\ UNCHANGED <<km, pool, tasks, last>>
     ELSE \E r \in {AfterErrorLog(sink,
                       handle_api_error_and_get_next_key(km, pool, error, rh.api_key,
                          rh.model_name, rh.attempt + 1, "unknown", now, now, coin),
                       km, pool)} :
          /\ km.singleton
          /\ Bounded(r.km, r.pool, AddTasks(tasks, r.spawn))
          /\ km' = r.km
          /\ pool' = r.pool
          /\ tasks' = AddTasks(tasks, r.spawn)
          /\ last' = Logged(Observed("handle_error", rh.api_key, rh.model_name, error, r),
                            NoCode, sink)
          /\ rh' = AfterHandler([c EXCEPT !.log = @ \o last'.log], r)
  /\ UNCHANGED <<now, preserved, settings, sre>>

(***************************************************************************)
(* Specifications.  Each one runs the same program under a part of its     *)
(* inputs.                                                                 *)
(***************************************************************************)
\* The registry on its own: the pool is disabled (valid_key_pool is None)
InitKR == InitWith([DefaultSettings EXCEPT !.VALID_KEY_POOL_ENABLED = FALSE])

NextKR ==
  \/ Requests({NoModel, <<"pro">>}, {0}, {FALSE})
  \/ Failures(ErrorTexts, {NoModel, <<"pro">>}, {FALSE})
  \/ Administration
  \/ ConfigReload
  \/ Tick

SpecKR == InitKR /\ [][NextKR]_vars

\* The pool without the clock: requests, fatal and retryable failures,
\* verifications that succeed or fail, config reloads
NextVKP ==
  \/ Requests({NoModel}, {0}, {TRUE})
  \/ Failures({{401}, {404}, {503}}, {NoModel}, {TRUE})
  \/ EmergencySteps
  \/ \E task \in BagToSet(tasks) : StartAsyncVerifyAndAdd(task)
  \/ VerifyDoneSteps({Verified, {401}}, {TRUE})
  \/ ConfigReload

SpecVKP == Init /\ [][NextVKP]_vars

\* The pool with the clock: entries expire between and within requests
NextTTL ==
  \/ Requests({<<"pro">>, <<"flash">>}, {0, 1}, BOOLEAN)
  \/ TaskStep({Verified}, {FALSE})
  \/ Tick

SpecTTL == Init /\ [][NextTTL]_vars

\* Cooldowns: 429 on a model cools a key down until the next quota reset;
\* one background task at a time
CooldownTasks == 1

FewTasks == BagCardinality(tasks') <= CooldownTasks

NextCooldown ==
  \/ Requests(Models \cup {NoModel}, {0}, {TRUE}) /\ FewTasks
  \/ Failures({{429}, {401}}, {<<"pro">>}, {TRUE}) /\ FewTasks
  \/ EmergencySteps
  \/ StartVerifySteps
  \/ VerifyDoneSteps({Verified}, {TRUE}) /\ FewTasks
  \/ Tick

SpecCooldown == Init /\ [][NextCooldown]_vars

\* The error handler on every kind of upstream error, over the registry
NextClassify ==
  \/ Requests({NoModel, <<"pro">>}, {0}, {FALSE})
  \/ UpstreamErrors(ApiErrors, {NoModel, <<"pro">>}, {FALSE}, {"stored"})
  \/ ResetFailureCounts

SpecClassify == InitKR /\ [][NextClassify]_vars

\* Removal of keys while the pool is refilled
NextRemove ==
  \/ Requests({NoModel}, {0}, {TRUE})
  \/ Failures({{503}}, {NoModel}, {TRUE})
  \/ EmergencySteps
  \/ \E task \in BagToSet(tasks) : StartAsyncVerifyAndAdd(task)
  \/ VerifyDoneSteps({Verified}, {TRUE})
  \/ \E key \in Keys : RemoveKey(key)

SpecRemove == Init /\ [][NextRemove]_vars

\* Usage caps: every model name under limited and unlimited non-Pro usage
UsageSettings ==
  {DefaultSettings, [DefaultSettings EXCEPT !.NON_PRO_MODEL_MAX_USAGE = 0]}

InitUsage == \E s \in UsageSettings : InitWith(s)

NextUsage ==
  \/ Requests(RequestModels, {0}, BOOLEAN)
  \/ EmergencySteps
  \/ \E task \in BagToSet(tasks) : StartAsyncVerifyAndAdd(task)
  \/ VerifyDoneSteps({Verified}, {FALSE})

SpecUsage == InitUsage /\ [][NextUsage]_vars

\* A session of the stream retry engine
NextStream ==
  \/ \E body \in Bodies, swallow_thoughts \in BOOLEAN : StartSession(body, swallow_thoughts)
  \/ \E line \in Lines : ReadLine(line)
  \/ StreamEnds
  \/ StreamFails
  \/ \E outcome \in {"StreamConsumed", "empty"} : ReadClosed(outcome)
  \/ Interrupted
  \/ RetryOpened
  \/ RetryFailed

SpecStream == Init /\ [][NextStream]_vars

\* Client requests through the retry driver, on the registry without the pool
NextRetry ==
  \/ Requests({NoModel}, {0}, {FALSE})
  \/ \E api_key \in Keys, key_manager \in BOOLEAN : WrapperCalled(api_key, NoModel, key_manager)
  \/ FuncReturns
  \/ \E error \in {{401}, {503}, {}}, sink \in Sinks : FuncRaises(error, FALSE, sink)

SpecRetry == InitKR /\ [][NextRetry]_vars

(***************************************************************************)
(* The registry's list of valid keys and its cursor                        *)
(***************************************************************************)
\* C1: a checkout (get_next_working_key, through the pool or through the
\* registry's round-robin) returns a credential and never raises, in every
\* reachable state, also after a key left valid_api_keys while the cursor
\* stood at or past the new end.
CheckoutNeverRaises == last.op = "checkout" => ~last.raised

\* C2: a credential of api_keys is in valid_api_keys exactly when its failure
\* count is below MAX_FAILURES, whatever operations ran before.
ValidIffBelowMaxFailures ==
  km.singleton =>
    \A c \in Range(km.api_keys) :
       c \in Range(km.valid_api_keys) <=> km.key_failure_counts[c] < MAX_FAILURES

\* C5: the cursor is a position of valid_api_keys whenever that list is not
\* empty: 0 <= key_index < len(valid_api_keys).
CursorInRange ==
  km.valid_api_keys = <<>>
    \/ (0 <= km.key_index /\ km.key_index < Len(km.valid_api_keys))

\* A burst of emergency refills on an empty pool.  asyncio runs the tasks it
\* was handed by create_task, in the order of their creation, before it
\* resumes a task whose round-trip answers: no answer is taken while a task
\* waits for its first step.
ReadyFirst == \A task \in BagToSet(tasks) : task.pc # "start"

NextBurst ==
  \/ Requests(RequestModels, {0}, {FALSE}) /\ pool.valid_keys = <<>>
  \/ \E task \in BagToSet(tasks) : StartBackgroundEmergencyRefill(task)
  \/ /\ ReadyFirst
     /\ \E task \in BagToSet(tasks), key \in Keys, success \in BOOLEAN :
           EmergencyVerifyDone(task, key, success)
  \/ /\ ReadyFirst
     /\ \E task \in BagToSet(tasks), j \in JitterRange : RefillGathered(task, j)

SpecBurst == Init /\ [][NextBurst]_vars

FatalErrors == {{401}, {403}, {400}, {404}, {422}}

BackgroundRefillsRunning ==
  BagCardinality([t \in {t \in BagToSet(tasks) : t.kind = "bg_refill" /\ t.pc = "verifying"}
                    |-> CopiesIn(t, tasks)])

\* the round-trips of _verify_key_with_api(key) that have not answered yet
InFlight(key) ==
  BagCardinality([t \in {t \in BagToSet(tasks) : t.pc = "verifying" /\ key \in t.pending}
                    |-> CopiesIn(t, tasks)])

RECURSIVE InFlightOf(_)
InFlightOf(keys) ==
  IF keys = {} THEN 0
  ELSE LET key == CHOOSE key \in keys : TRUE
       IN InFlight(key) + InFlightOf(keys \ {key})

BurstFinished == last.op = "gathered" /\ tasks = NoTasks

KindOf(c) ==
  CASE c = 429 -> "RATE_LIMIT"
    [] c \in {401, 403} -> "AUTH_ERROR"
    [] c \in {400, 404, 422} -> "CLIENT_ERROR"
    [] c = 408 -> "TIMEOUT_ERROR"
    [] c \in {500, 502, 504} -> "SERVER_ERROR"
    [] c = 503 -> "SERVICE_UNAVAILABLE"
    [] OTHER -> "UNKNOWN_ERROR"

\* the key action that the mapping gives a status code
ActionOf(c, model) ==
  CASE c = 429 -> IF model # NoModel THEN "COOL_DOWN_MODEL" ELSE "MARK_FAILED"
    [] c \in {401, 403, 400, 404, 422} -> "MARK_FAILED"
    [] c \in {408, 500, 502, 504, 503} -> "EVICT"
    [] OTHER -> "COUNT_ONLY"

\* a step of the handler has done the key action a to the key of the error
ActionTaken(a, key, model) ==
  CASE a = "COOL_DOWN_MODEL" ->
         /\ km'.key_model_status[key][model] > now
         /\ km'.key_failure_counts = km.key_failure_counts
         /\ km'.valid_api_keys = km.valid_api_keys
    [] a = "MARK_FAILED" ->
         /\ km'.key_failure_counts[key] = MAX_FAILURES
         /\ key \notin Range(km'.valid_api_keys)
         /\ km'.key_model_status = km.key_model_status
    [] a = "EVICT" ->
         /\ \A i \in 1..Len(pool'.valid_keys) : pool'.valid_keys[i].key # key
         /\ km'.key_failure_counts = km.key_failure_counts
         /\ km'.valid_api_keys = km.valid_api_keys
         /\ km'.key_model_status = km.key_model_status
    [] a = "COUNT_ONLY" ->
         /\ km'.key_failure_counts[key] = km.key_failure_counts[key] + 1
         /\ key \in Range(km'.valid_api_keys)
               <=> (key \in Range(km.valid_api_keys)
                    /\ km'.key_failure_counts[key] < MAX_FAILURES)
         /\ km'.key_model_status = km.key_model_status

\* the keys of valid_api_keys that are not cooling for the model at t, in the
\* order of valid_api_keys
NotCooling(k, model, t) ==
  SelectSeq(k.valid_api_keys,
            LAMBDA key : model = NoModel \/ ~InCooldownFor(k, key, model, t))

\* the first key of the sequence keys that stands at or after position i of
\* valid_api_keys, the first of all when there is none
NextFrom(k, keys, i) ==
  LET at(key) == CHOOSE j \in 1..Len(k.valid_api_keys) : k.valid_api_keys[j] = key
      later == SelectSeq(keys, LAMBDA key : at(key) >= i)
  IN IF later # <<>> THEN later[1] ELSE keys[1]

\* C26: the registry's checkout is strictly round-robin.  A call for a model
\* returns the first key of valid_api_keys, from the cursor on and around the
\* end, that is not cooling for the model, sets the cursor behind that key
\* and leaves valid_api_keys alone; so, while valid_api_keys does not change,
\* consecutive calls return the keys that are not cooling in the order of
\* valid_api_keys, each once in a round, whoever the callers are.
StrictRoundRobin ==
  [][(/\ last'.op = "checkout"
      /\ ~km.valid_key_pool
      /\ NotCooling(km, last'.model, now) # <<>>)
       => /\ ~last'.raised
          /\ km'.valid_api_keys = km.valid_api_keys
          /\ last'.ret = NextFrom(km, NotCooling(km, last'.model, now), km.key_index + 1)
          /\ km'.key_index
                = (CHOOSE j \in 1..Len(km.valid_api_keys) : km.valid_api_keys[j] = last'.ret)
                    % Len(km.valid_api_keys)]_vars

ClassifiedByStatusCode ==
  [][(last'.op = "handle_error" /\ last'.status_code # NoCode)
       => /\ Len(last'.log) = 1
          /\ last'.log[1].error_type = KindOf(last'.status_code)
          /\ ActionTaken(ActionOf(last'.status_code, last'.model), last'.key, last'.model)
    ]_vars

(***************************************************************************)
(* The checkout from the pool                                              *)
(***************************************************************************)
\* the entries of a pool that have not expired at t
Unexpired(entries, t) == SelectSeq(entries, LAMBDA e : ~is_expired(e, t))

\* the entry e can be handed out for the model at t: it is unexpired, its key
\* is not cooling for the model, and it is under the cap of the model
CanServe(k, e, model, t) ==
  /\ t <= e.expires_at
  /\ model # NoModel => k.key_model_status[e.key][model] <= t
  /\ get_max_usage_for_model(model) > 0 => e.usage_count < get_max_usage_for_model(model)

\* the position of the head-most entry of d that can be handed out, 0 when
\* there is none
HeadMost(k, d, model, t) ==
  IF \E i \in 1..Len(d) : CanServe(k, d[i], model, t)
  THEN CHOOSE i \in 1..Len(d) :
          /\ CanServe(k, d[i], model, t)
          /\ \A j \in 1..(i - 1) : ~CanServe(k, d[j], model, t)
  ELSE 0

\* The rotation of a pool hit with "in cooldown" read as cooling for the
\* requested model: the hit returns the head-most entry that is unexpired,
\* not cooling for the model and under the cap of the model.  The pool does
\* not work that way: _is_key_usable never reads model_name.
PoolHitRotatesHeadMost ==
  [][(last'.op = "checkout" /\ last'.hit)
       => \E d \in {Unexpired(pool.valid_keys, now)} :
          \E i \in {HeadMost(km, d, last'.model, now)} :
             /\ i > 0
             /\ last'.ret = d[i].key
             /\ pool'.valid_keys
                  = SubSeq(d, i + 1, Len(d)) \o <<[d[i] EXCEPT !.usage_count = @ + 1]>>]_vars

\* the position of the head-most entry of d that can be handed out and whose
\* key has no cooldown in force for any model, 0 when there is none
HeadMostNotCooling(k, d, model, t) ==
  IF \E i \in 1..Len(d) : CanServe(k, d[i], model, t) /\ ~InAnyCooldown(k, d[i].key, t)
  THEN CHOOSE i \in 1..Len(d) :
          /\ CanServe(k, d[i], model, t) /\ ~InAnyCooldown(k, d[i].key, t)
          /\ \A j \in 1..(i - 1) :
                ~(CanServe(k, d[j], model, t) /\ ~InAnyCooldown(k, d[j].key, t))
  ELSE 0

ReloadKeepsObservableState ==
  last.op = "reinit" /\ km.api_keys = last.before[1].km.api_keys =>
    /\ km.key_failure_counts = last.before[1].km.key_failure_counts
    /\ Range(km.valid_api_keys) = Range(last.before[1].km.valid_api_keys)
    /\ original_get_next_working_key(km, NoModel, now).ret
         = original_get_next_working_key(last.before[1].km, NoModel, now).ret
    /\ Unexpired(pool.valid_keys, now) = Unexpired(last.before[1].pool.valid_keys, now)
    /\ \A key \in PoolKeys(Unexpired(pool.valid_keys, now)) :
          key \in pool.pool_keys_set <=> key \in last.before[1].pool.pool_keys_set

\* C22: in every state of the registry, mark_key_as_failed(c) followed by
\* reset_key_failure_count(c) gives c the failure count 0 and puts it back in
\* valid_api_keys at the place it had, so that valid_api_keys is the same
\* sequence as before the two calls.
MarkFailedThenResetRestores ==
  \A c \in Range(km.valid_api_keys) :
     /\ reset_key_failure_count(mark_key_as_failed(km, c), c).key_failure_counts[c] = 0
     /\ reset_key_failure_count(mark_key_as_failed(km, c), c).valid_api_keys
          = km.valid_api_keys

(***************************************************************************)
(* The stream retry engine                                                 *)
(***************************************************************************)
\* the generator has returned, or passed an exception on
SessionOver == sre.pc = "done"

\* C15: a session makes at most MAX_STREAM_RETRIES continuation requests, and
\* the client stream ends in one of two ways only: after a CLEAN attempt
\* without an error event, or with exactly one error event (504) as its last
\* item; also when a continuation request fails to open a stream.
SessionEndsCleanOrWithError ==
  /\ sre.consecutive_retry_count <= max_retries
  /\ SessionOver =>
       /\ ~sre.raised
       /\ \/ sre.clean_exit /\ sre.error_events = 0
          \/ ~sre.clean_exit /\ sre.error_events = 1

\* the attempt is over and the last line read carried STOP or MAX_TOKENS on a
\* chunk that is not a thought
FinishedOnFormalChunk ==
  /\ sre.pc \in {"done", "interrupted"}
  /\ sre.lines # <<>>
  /\ sre.lines[Len(sre.lines)].finishReason \in {"STOP", "MAX_TOKENS"}
  /\ sre.lines[Len(sre.lines)].data
  /\ ~sre.lines[Len(sre.lines)].thought

\* the formal text up to and with the chunk of the last line read
FinishedText ==
  IF sre.lines[Len(sre.lines)] \in Range(sre.yielded) THEN sre.accumulated_text
  ELSE sre.accumulated_text \o sre.lines[Len(sre.lines)].text

\* C16: an attempt that ends with STOP or MAX_TOKENS on a chunk that is not a
\* thought is CLEAN exactly if the last character of the accumulated formal
\* text, as it is stored, is in FINAL_PUNCTUATION, and is FINISH_INCOMPLETE
\* otherwise; for every text, the empty one and those that end in whitespace
\* or a newline included.
CleanIffFinalPunctuation ==
  FinishedOnFormalChunk =>
    /\ sre.clean_exit <=> /\ FinishedText # <<>>
                          /\ FinishedText[Len(FinishedText)] \in FINAL_PUNCTUATION
    /\ ~sre.clean_exit => sre.interruption_reason = "FINISH_INCOMPLETE"

\* a step of the session that reads a line of the response
LineRead == sre.pc = "reading" /\ Len(sre'.lines) = Len(sre.lines) + 1

\* the line that swallow mode holds back in a step that reads it
HeldBackAsThought ==
  /\ sre.swallow_mode_active
  /\ sre'.lines[Len(sre'.lines)].data
  /\ sre'.lines[Len(sre'.lines)].thought

\* C17 as the specification has it: every line read from an upstream attempt
\* is forwarded unchanged and in order, thought chunks in swallow mode being
\* the only exception; the last line of an attempt that does not end CLEAN
\* is forwarded too.
EveryLineForwarded ==
  [][LineRead =>
       sre'.yielded = IF HeldBackAsThought THEN sre.yielded
                      ELSE Append(sre.yielded, sre'.lines[Len(sre'.lines)])]_vars

\* C17: every line read from an upstream attempt is forwarded unchanged and
\* in order, with two exceptions: thought chunks in swallow mode, and the
\* line on which an interruption is detected (a finish reason on a thought
\* chunk, a blockReason, STOP after text that does not end in
\* FINAL_PUNCTUATION, an abnormal finish reason), which ends the attempt and
\* is held back.
EveryLineForwardedButInterrupting ==
  [][LineRead =>
       sre'.yielded =
         IF \/ HeldBackAsThought
            \/ Interruption(sre.accumulated_text, sre'.lines[Len(sre'.lines)]) # None
         THEN sre.yielded
         ELSE Append(sre.yielded, sre'.lines[Len(sre'.lines)])]_vars

\* a second line interrupted the attempt and was held back, the first was
\* forwarded
InterruptingLineHeldBack ==
  /\ sre.pc = "interrupted"
  /\ sre.interruption_reason = "FINISH_ABNORMAL"
  /\ Len(sre.lines) = 2
  /\ sre.yielded = <<sre.lines[1]>>

\* the turns of the request the session was called with
OriginalTurns ==
  IF "contents" \in DOMAIN sre.original_request_body
  THEN sre.original_request_body.contents ELSE <<>>

\* how many of the original turns stand before the retry context: those up to
\* the last user turn, all of them without a user turn
TurnsBefore ==
  IF \E i \in 1..Len(OriginalTurns) : OriginalTurns[i].role = "user"
  THEN CHOOSE i \in 1..Len(OriginalTurns) :
         /\ OriginalTurns[i].role = "user"
         /\ \A j \in 1..Len(OriginalTurns) : OriginalTurns[j].role = "user" => j <= i
  ELSE Len(OriginalTurns)

\* C18: every continuation request, the k-th as the first, is the original
\* request with exactly two turns added: a model turn with the whole
\* accumulated text, then the user turn that asks to continue, right after
\* the last user turn, or at the tail without a user turn.  The original
\* turns keep their order and the original request is not modified.
ContinuationCarriesTwoTurns ==
  /\ [](sre.pc = "requesting" =>
          /\ Len(sre.retry_body.contents) = Len(OriginalTurns) + 2
          /\ \A i \in 1..TurnsBefore : sre.retry_body.contents[i] = OriginalTurns[i]
          /\ sre.retry_body.contents[TurnsBefore + 1] = Turn("model", sre.accumulated_text)
          /\ sre.retry_body.contents[TurnsBefore + 2] = Turn("user", ContinuePrompt)
          /\ \A i \in (TurnsBefore + 1)..Len(OriginalTurns) :
                sre.retry_body.contents[i + 2] = OriginalTurns[i]
          /\ \A field \in DOMAIN sre.original_request_body \ {"contents"} :
                sre.retry_body[field] = sre.original_request_body[field])
  /\ [][sre.pc # "idle" => sre'.original_request_body = sre.original_request_body]_vars

\* the second continuation request of a session with text, for a conversation
\* whose last user turn is not its last turn
SecondContinuationRequest ==
  /\ sre.pc = "requesting"
  /\ sre.consecutive_retry_count = 2
  /\ sre.accumulated_text = <<"a", ".">>
  /\ TurnsBefore = 3
  /\ Len(OriginalTurns) = 4

\* a chunk of formal text, and a thought chunk
IsFormalText(line) == line.data /\ ~line.thought /\ line.text # <<>>

IsThought(line) == line.data /\ line.thought

\* formal text was emitted in an attempt before the one that is read now
FormalTextBeforeAttempt == Len(sre.accumulated_text) > Len(sre.text_in_this_stream)

\* swallow mode is on only with SWALLOW_THOUGHTS and formal text emitted
SwallowOnlyAfterFormalText ==
  sre.swallow_mode_active => sre.swallow_thoughts /\ sre.accumulated_text # <<>>

\* C19: with SWALLOW_THOUGHTS enabled and formal text emitted before an
\* interruption, the following attempt forwards no thought chunk before its
\* first chunk of formal text is read; and swallow mode is never active when
\* SWALLOW_THOUGHTS is disabled or no formal text was emitted in the session.
ThoughtsHeldBackUntilFormalText ==
  /\ SwallowOnlyAfterFormalText
  /\ sre.swallow_thoughts /\ FormalTextBeforeAttempt =>
       \A i \in 1..Len(sre.yielded) :
          IsThought(sre.yielded[i]) => \E k \in 1..(i - 1) : IsFormalText(sre.yielded[k])

(***************************************************************************)
(* The retry driver                                                        *)
(***************************************************************************)
\* C20: the retry driver calls the wrapped function at most MAX_RETRIES times
\* for a client request; after a call that succeeds no further call is made
\* and the wrapper returns; and if no call succeeds, the error the wrapper
\* raises is the error of the last attempt.
RaisesErrorOfLastAttempt ==
  /\ [](rh.calls <= MAX_RETRIES)
  /\ [][rh.pc = "returned" /\ rh'.pc = "returned" => rh'.calls = rh.calls]_vars
  /\ [](rh.pc = "raised" =>
          /\ rh.last_exception.raised_by = "func"
          /\ rh.exception = rh.last_exception)

\* The registry, the pool, the stream retry engine and the retry driver under
\* every input
Next ==
  \/ Requests(RequestModels, {0, 1}, BOOLEAN)
  \/ Failures(ErrorTexts, Models \cup {NoModel}, BOOLEAN)
  \/ Administration
  \/ ConfigReload
  \/ TaskStep(VerifyOutcomes, BOOLEAN)
  \/ \E task \in BagToSet(tasks) : CancelVerification(task)
  \/ Tick
  \/ \E body \in Bodies, swallow_thoughts \in BOOLEAN : StartSession(body, swallow_thoughts)
  \/ \E line \in Lines : ReadLine(line)
  \/ StreamEnds
  \/ StreamFails
  \/ \E outcome \in {"StreamConsumed", "empty"} : ReadClosed(outcome)
  \/ Interrupted
  \/ RetryOpened
  \/ RetryFailed
  \/ \E api_key \in Keys, model_name \in Models \cup {NoModel}, key_manager \in BOOLEAN :
        WrapperCalled(api_key, model_name, key_manager)
  \/ FuncReturns
  \/ \E error \in ErrorTexts, coin \in BOOLEAN, sink \in Sinks : FuncRaises(error, coin, sink)
  \/ UpstreamErrors(ApiErrors, Models \cup {NoModel}, BOOLEAN, Sinks)

Spec == Init /\ [][Next]_vars

GoodKey == "A"

Answers(key) == IF key = GoodKey THEN {TRUE} ELSE BOOLEAN

\* the steps of _background_emergency_refill
BackgroundRefillStep ==
  \/ \E task \in BagToSet(tasks) :
        task.kind = "bg_refill" /\ StartBackgroundEmergencyRefill(task)
  \/ \E task \in BagToSet(tasks), key \in Keys : \E success \in Answers(key) :
        task.kind = "bg_refill" /\ EmergencyVerifyDone(task, key, success)
  \/ \E task \in BagToSet(tasks), j \in JitterRange :
        task.kind = "bg_refill" /\ RefillGathered(task, j)

\* the steps of the other background tasks
OtherTaskStep ==
  \/ \E task \in BagToSet(tasks) : StartEmergencyRefillAsync(task)
  \/ \E task \in BagToSet(tasks), key \in Keys : \E success \in Answers(key) :
        task.kind = "refill_async" /\ EmergencyVerifyDone(task, key, success)
  \/ \E task \in BagToSet(tasks), j \in JitterRange :
        task.kind = "refill_async" /\ RefillGathered(task, j)
  \/ \E task \in BagToSet(tasks) : StartAsyncVerifyAndAdd(task)
  \/ \E task \in BagToSet(tasks) : StartRevalidate(task)
  \/ \E task \in BagToSet(tasks), j \in JitterRange :
        \E outcome \in IF task.sel = <<GoodKey>> THEN {Verified} ELSE {Verified, {503}} :
           VerifyKeyDone(task, outcome, j, FALSE)

NextRefill ==
  \/ Requests({NoModel, <<"pro">>}, {0}, BOOLEAN)
  \/ BackgroundRefillStep
  \/ OtherTaskStep
  \/ Tick

SpecRefill ==
  Init /\ [][NextRefill]_vars /\ WF_vars(BackgroundRefillStep) /\ WF_vars(OtherTaskStep)

\* A stronger reading: after a checkout that misses on an empty pool
\* (POOL_SIZE > 0) while a credential that the registry counts as valid, that
\* is not in the pool and that the upstream would accept exists, the refills
\* of this slice alone make the pool non-empty.  They do not when no running
\* refill has selected that credential: it then waits for a later refill or
\* for the scheduled maintenance of the pool.
MissRefillsPool ==
  (/\ last.op = "checkout" /\ ~last.hit /\ ~last.raised
   /\ pool.valid_keys = <<>>
   /\ is_key_valid(km, GoodKey)
   /\ pool.emergency_refill_count < MaxRefills)
    ~> (pool.valid_keys # <<>>)

\* the emergency refills that hold a key the upstream has accepted and that
\* have not yet gathered their answers
HoldingVerifiedKey ==
  {task \in BagToSet(tasks) :
      task.kind \in {"bg_refill", "refill_async"} /\ task.pc = "verifying" /\ task.ok # {}}

CreatedRefills(bag) ==
  BagCardinality([task \in {x \in BagToSet(bag) :
                              x.kind \in {"refill_async", "verify_add"} /\ x.pc = "start"}
                    |-> CopiesIn(task, bag)])

NextCancel ==
  \/ Requests({NoModel, <<"pro">>}, {0}, BOOLEAN)
  \/ TaskStep({Verified, {503}}, {FALSE})
  \/ \E task \in BagToSet(tasks) : CancelVerification(task)
  \/ Tick

SpecCancel == Init /\ [][NextCancel]_vars

\* what a task has added to the counters of the verifications since it
\* started: the verifications it began and, in the emergency refills, the
\* answers it has had
CountedBy(task) ==
  IF task.kind \in {"verify_add", "revalidate"}
  THEN [NoStats EXCEPT !.total_verifications = Len(task.sel)]
  ELSE [NoStats EXCEPT !.total_verifications = Len(task.sel),
                       !.successful_verifications = Cardinality(task.ok),
                       !.verification_failures =
                           Len(task.sel) - Cardinality(task.pending) - Cardinality(task.ok)]

UnknownErrorSwitchesOnce ==
  [][(/\ last'.op = "handle_error" /\ ~last'.raised
      /\ ~km.valid_key_pool
      /\ Len(last'.log) = 1
      /\ last'.log[1].error_type = "UNKNOWN_ERROR")
       => /\ ActionTaken("COUNT_ONLY", last'.key, last'.model)
          /\ \E one \in {original_get_next_working_key(IncrementFailure(km, last'.key),
                                                        last'.model, now)} :
                /\ km'.key_index = one.km.key_index
                /\ last'.ret = one.ret]_vars

(***************************************************************************)
(* The text a stream retry session accumulates                             *)
(***************************************************************************)
\* the text of a line as the client takes it for formal text
FormalTextOf(line) == IF IsFormalText(line) THEN line.text ELSE <<>>

Reached(d, hit, ret) ==
  {i \in 1..Len(d) : hit => \E j \in i..Len(d) : d[j].key = ret}

OutstandingVerifyKey ==
  {task.sel[1] : task \in {x \in BagToSet(tasks) :
                             x.kind \in {"verify_add", "revalidate"} /\ x.pc = "verifying"}}

====
